---- MODULE Spec2Model ----
(***************************************************************************)
(* State machine of the browser game client in src/game.js: the GameClient *)
(* object (session state, viewport, surface), its Avatar objects and their *)
(* frame images in flight, and the events the page dispatches to it        *)
(* (socket open/message/close/error, window resize, image load/error).     *)
(* Every handler runs to completion on the single event thread, so each    *)
(* action is one whole handler.                                            *)
(***************************************************************************)
EXTENDS Integers, Sequences, FiniteSets, TLC

\* Number of Avatar objects that may be alive (registered, or still referenced
\* by the onload closure of one of their pending images) at the same time.
MaxAvatarObjects == 2

\* GameClient.constructor
worldWidth == 2048
worldHeight == 2048

\* JavaScript's null and undefined, and a message field holding null.
Null == "null"
Undefined == [undefined |-> TRUE]
NullDef == [null |-> TRUE]

Max(a, b) == IF a >= b THEN a ELSE b
Min(a, b) == IF a <= b THEN a ELSE b

\* m.f of a parsed message: undefined when the field is missing.
Field(m, f) == IF f \in DOMAIN m THEN m[f] ELSE Undefined

(***************************************************************************)
(* Inputs: the values the environment (server, window, image loader) may   *)
(* hand to the client.                                                     *)
(***************************************************************************)
PlayerIds == {"p1", "p2"}
AvatarNames == {"a1", "a2"}

Player(id, x, y, facing, animationFrame, avatar) ==
    [id |-> id, username |-> id, x |-> x, y |-> y,
     facing |-> facing, animationFrame |-> animationFrame, avatar |-> avatar]

\* The mappings id -> Player over the records recs, each keyed by its record's id.
PlayerMaps(recs) ==
    UNION {{f \in [S -> recs] : \A i \in S : f[i].id = i} : S \in SUBSET PlayerIds}

\* An avatar definition: name, frames: direction -> sequence of image sources.
AvatarDef(name) ==
    IF name = "a1"
    THEN [name |-> name, frames |-> [east |-> <<"e0">>]]
    ELSE [name |-> name, frames |-> [south |-> <<"s0">>]]

\* The avatars object of a join response, its keys in the order of the text.
AvatarsOf(names) == [k \in DOMAIN names |-> [key |-> names[k], def |-> AvatarDef(names[k])]]

(***************************************************************************)
(* The client's state.                                                     *)
(***************************************************************************)
VARIABLES
    canvas,      \* this.canvas: [width, height]
    worldImage,  \* this.worldImage: "loading", "loaded" or "broken" (Null before loadWorldMap)
    ws,          \* this.ws: "connecting", "open" or "closed"
    sent,        \* the messages handed to ws.send, in order
    playerId,    \* this.playerId
    players,     \* this.players: id -> Player, or Undefined
    avatars,     \* this.avatars: name -> reference (oid) to an Avatar object
    objs,        \* the Avatar objects alive: oid -> [name, frames, loadedImages]
    loading,     \* frame images in flight: <<oid, direction, index>> of their onload closure
    viewportX,   \* this.viewportX
    viewportY,   \* this.viewportY
    surface,     \* what the canvas shows
    event,       \* the event whose handler ran last
    threw,       \* whether that handler raised an error
    renderCalls  \* how many times that handler called render()

vars == <<canvas, worldImage, ws, sent, playerId, players, avatars, objs, loading,
          viewportX, viewportY, surface, event, threw, renderCalls>>

\* The 2D context's transform: the horizontal scale factor, and the stack of
\* saved transforms. The context starts with the identity.
Identity == [scale |-> 1, stack |-> <<>>]

\* A cleared canvas: no background, no avatar frame, no label on it; rects is the
\* rectangle each drawn frame covers, transform the context's transform.
Blank == [background |-> FALSE, frames |-> {}, labels |-> {}, rects |-> <<>>, transform |-> 1]

\* The fields a handler reads and writes, with the outcome of the handler so far.
Client ==
    [canvas |-> canvas, worldImage |-> worldImage, playerId |-> playerId,
     players |-> players, avatars |-> avatars, objs |-> objs, loading |-> loading,
     viewportX |-> viewportX, viewportY |-> viewportY, surface |-> surface,
     threw |-> FALSE, renderCalls |-> 0]

\* Statement sequencing: a statement after one that threw does not run.
Then(s, F(_)) == IF s.threw THEN s ELSE F(s)
Throw(s) == [s EXCEPT !.threw = TRUE]

(***************************************************************************)
(* Avatar                                                                  *)
(***************************************************************************)
\* References in use: a new object never gets the reference of a live one.
FreeOids(s) == (1..MaxAvatarObjects) \ (DOMAIN s.objs \cup {l[1] : l \in s.loading})
NewOid(s) == CHOOSE o \in FreeOids(s) : \A p \in FreeOids(s) : o <= p

\* Avatar.loadImages: every frame of every direction starts loading.
LoadImages(frames, oid) ==
    {<<oid, d, i - 1>> : <<d, i>> \in UNION {{<<d, i>> : i \in 1..Len(frames[d])} : d \in DOMAIN frames}}

\* this.avatars[key] = new Avatar(def)
RegisterAvatar(s, key, def) ==
    IF def = NullDef \/ def = Undefined THEN Throw(s)   \* avatarData.name of null
    ELSE LET oid == NewOid(s)
             obj == [name |-> def.name, frames |-> def.frames,
                     loadedImages |-> [d \in DOMAIN def.frames |-> {}]]
         IN [s EXCEPT !.objs = (oid :> obj) @@ @,
                      !.loading = @ \cup LoadImages(def.frames, oid),
                      !.avatars = (key :> oid) @@ @]

\* An object no longer registered and with no image in flight is garbage.
Collect(s) ==
    LET live == {s.avatars[n] : n \in DOMAIN s.avatars} \cup {l[1] : l \in s.loading}
    IN [s EXCEPT !.objs = [o \in DOMAIN s.objs \cap live |-> s.objs[o]]]

\* Mutant: any loaded frame of the resolved direction stands in for the one asked for.
FrameLoadedAnyIndex(avatar, facing, animationFrame, isWest) ==
    LET direction == IF isWest THEN "east" ELSE facing
    IN /\ direction \in DOMAIN avatar.loadedImages
       /\ avatar.loadedImages[direction] # {}

\* Avatar.draw reaches drawImage: the frame of the resolved direction is loaded.
FrameLoaded(avatar, facing, animationFrame, isWest) ==
    LET direction == IF isWest THEN "east" ELSE facing
    IN /\ direction \in DOMAIN avatar.loadedImages
       /\ animationFrame \in avatar.loadedImages[direction]

\* const avatarSize = 32
avatarSize == 32

\* ctx.save(), ctx.scale(sx, 1), ctx.restore()
Save(ctx) == [ctx EXCEPT !.stack = Append(@, ctx.scale)]
Scale(ctx, sx) == [ctx EXCEPT !.scale = @ * sx]
Restore(ctx) ==
    IF ctx.stack = <<>> THEN ctx
    ELSE [scale |-> ctx.stack[Len(ctx.stack)], stack |-> SubSeq(ctx.stack, 1, Len(ctx.stack) - 1)]

\* ctx.drawImage(frame, dx, dy, dw, dh): the canvas rectangle the image covers
\* under the current transform, and whether the image appears flipped left-right.
DrawImage(ctx, dx, dy, dw, dh) ==
    [left |-> Min(ctx.scale * dx, ctx.scale * (dx + dw)),
     right |-> Max(ctx.scale * dx, ctx.scale * (dx + dw)),
     top |-> dy, bottom |-> dy + dh, flipped |-> ctx.scale < 0]

\* Mutant: the mirrored draw keeps the unmirrored x offset.
AvatarDrawUnnegated(ctx, x, y, isWest) ==
    LET saved == Save(ctx)
        drawn == IF isWest THEN Scale(saved, -1) ELSE saved
    IN [rect |-> DrawImage(drawn, x - avatarSize \div 2, y - avatarSize \div 2,
                           avatarSize, avatarSize),
        ctx |-> Restore(drawn)]

\* Avatar.draw once the frame is found: the rectangle drawn and the context left behind.
AvatarDraw(ctx, x, y, isWest) ==
    LET saved == Save(ctx)
    IN IF isWest
       THEN LET flipped == Scale(saved, -1)
            IN [rect |-> DrawImage(flipped, -x - avatarSize \div 2, y - avatarSize \div 2,
                                   avatarSize, avatarSize),
                ctx |-> Restore(flipped)]
       ELSE [rect |-> DrawImage(saved, x - avatarSize \div 2, y - avatarSize \div 2,
                                avatarSize, avatarSize),
             ctx |-> Restore(saved)]

(***************************************************************************)
(* GameClient                                                              *)
(***************************************************************************)
\* Mutant: the lower bound is applied before the upper bound.
ClampUpperLast(center, size, world) == Min(world - size, Max(0, center - size \div 2))

\* Math.max(0, Math.min(world - size, center - size / 2))
Clamp(center, size, world) == Max(0, Min(world - size, center - size \div 2))

\* Mutant: the viewport is adjusted from its current value instead of recomputed.
UpdateViewportIncremental(s) ==
    IF s.playerId = Null THEN s
    ELSE IF s.players = Undefined THEN Throw(s)
    ELSE IF s.playerId \notin DOMAIN s.players THEN s
    ELSE LET player == s.players[s.playerId]
         IN [s EXCEPT !.viewportX = Clamp(@ + player.x, s.canvas.width, worldWidth),
                      !.viewportY = Clamp(@ + player.y, s.canvas.height, worldHeight)]

UpdateViewport(s) ==
    IF s.playerId = Null THEN s
    ELSE IF s.players = Undefined THEN Throw(s)   \* undefined[this.playerId]
    ELSE IF s.playerId \notin DOMAIN s.players THEN s
    ELSE LET player == s.players[s.playerId]
         IN [s EXCEPT !.viewportX = Clamp(player.x, s.canvas.width, worldWidth),
                      !.viewportY = Clamp(player.y, s.canvas.height, worldHeight)]

WorldToCanvas(s, worldX, worldY) == [x |-> worldX - s.viewportX, y |-> worldY - s.viewportY]

\* Mutant: a player exactly on the margin is culled.
InViewStrict(s) ==
    IF s.players = Undefined THEN {}
    ELSE {id \in DOMAIN s.players :
            LET canvasPos == WorldToCanvas(s, s.players[id].x, s.players[id].y)
            IN /\ canvasPos.x > -50 /\ canvasPos.x < s.canvas.width + 50
               /\ canvasPos.y > -50 /\ canvasPos.y < s.canvas.height + 50}

\* The players render() passes to drawPlayer.
InView(s) ==
    IF s.players = Undefined THEN {}
    ELSE {id \in DOMAIN s.players :
            LET canvasPos == WorldToCanvas(s, s.players[id].x, s.players[id].y)
            IN /\ canvasPos.x >= -50 /\ canvasPos.x <= s.canvas.width + 50
               /\ canvasPos.y >= -50 /\ canvasPos.y <= s.canvas.height + 50}

\* drawPlayer goes past its early return: the player's avatar is registered.
Labelled(s) == {id \in InView(s) : s.players[id].avatar \in DOMAIN s.avatars}

Render(s) ==
    LET r == [s EXCEPT !.renderCalls = @ + 1]
    IN IF r.worldImage = Null THEN r
       ELSE IF r.worldImage = "broken"
       THEN Throw([r EXCEPT !.surface = Blank])   \* clearRect, then drawImage throws
       ELSE LET frames == {id \in Labelled(r) :
                              LET p == r.players[id]
                              IN FrameLoaded(r.objs[r.avatars[p.avatar]], p.facing,
                                             p.animationFrame, p.facing = "west")}
                draw(id) == LET p == r.players[id]
                                canvasPos == WorldToCanvas(r, p.x, p.y)
                            IN AvatarDraw(Identity, canvasPos.x, canvasPos.y, p.facing = "west")
            IN [r EXCEPT !.surface =
                  [background |-> r.worldImage = "loaded",
                   frames |-> frames,
                   labels |-> Labelled(r),
                   rects |-> [id \in frames |-> draw(id).rect],
                   transform |-> IF \A id \in frames : draw(id).ctx = Identity THEN 1 ELSE -1]]

InitOf(sizes) ==
    /\ canvas \in sizes
    /\ worldImage = "loading"
    /\ ws = "connecting"
    /\ sent = <<>>
    /\ playerId = Null
    /\ players = <<>>
    /\ avatars = <<>>
    /\ objs = <<>>
    /\ loading = {}
    /\ viewportX = 0
    /\ viewportY = 0
    /\ surface = Blank
    /\ event = [type |-> "DOMContentLoaded"]
    /\ threw = FALSE
    /\ renderCalls = 0

\* The handler's outcome becomes the next state.
Commit(s, ev) ==
    LET c == Collect(s)
    IN /\ canvas' = c.canvas
       /\ worldImage' = c.worldImage
       /\ playerId' = c.playerId
       /\ players' = c.players
       /\ avatars' = c.avatars
       /\ objs' = c.objs
       /\ loading' = c.loading
       /\ viewportX' = c.viewportX
       /\ viewportY' = c.viewportY
       /\ surface' = c.surface
       /\ threw' = c.threw
       /\ renderCalls' = c.renderCalls
       /\ event' = ev

\* window 'resize' listener of setupCanvas. Assigning canvas.width clears the canvas.
Resize(size) ==
    /\ Commit(Then(Then([Client EXCEPT !.canvas = size, !.surface = Blank],
                        UpdateViewport), Render),
              [type |-> "resize", size |-> size])
    /\ UNCHANGED <<ws, sent>>

\* this.worldImage.onload
WorldImageLoad ==
    /\ worldImage = "loading"
    /\ Commit(Render([Client EXCEPT !.worldImage = "loaded"]), [type |-> "load", target |-> "world.jpg"])
    /\ UNCHANGED <<ws, sent>>

\* this.worldImage.onerror
WorldImageError ==
    /\ worldImage = "loading"
    /\ Commit([Client EXCEPT !.worldImage = "broken"], [type |-> "error", target |-> "world.jpg"])
    /\ UNCHANGED <<ws, sent>>

\* Mutant: the loaded image goes to the Avatar registered under the loading
\* Avatar's name, if there is one.
OnFrameLoadByName(s, l) ==
    LET name == s.objs[l[1]].name
        target == IF name \in DOMAIN s.avatars THEN s.avatars[name] ELSE l[1]
    IN [s EXCEPT !.objs[target].loadedImages[l[2]] = @ \cup {l[3]}, !.loading = @ \ {l}]

\* img.onload of Avatar.loadImages: the closure writes into the Avatar that started the load.
OnFrameLoad(s, l) ==
    [s EXCEPT !.objs[l[1]].loadedImages[l[2]] = @ \cup {l[3]}, !.loading = @ \ {l}]

FrameLoad(l) ==
    /\ l \in loading
    /\ Commit(OnFrameLoad(Client, l), [type |-> "load", target |-> "frame", frame |-> l])
    /\ UNCHANGED <<ws, sent>>

\* A frame image that fails to load: it has no onerror handler.
FrameError(l) ==
    /\ l \in loading
    /\ Commit([Client EXCEPT !.loading = @ \ {l}], [type |-> "error", target |-> "frame", frame |-> l])
    /\ UNCHANGED <<ws, sent>>

\* GameClient.joinGame
JoinGame == Append(sent, [action |-> "join_game", username |-> "Olutobi"])

\* ws.onopen
Open ==
    /\ ws = "connecting"
    /\ ws' = "open"
    /\ sent' = JoinGame
    /\ Commit(Client, [type |-> "open"])

\* Mutant: closing the socket sends another join request.
CloseRejoining ==
    /\ ws \in {"connecting", "open"}
    /\ ws' = "closed"
    /\ sent' = JoinGame
    /\ Commit(Client, [type |-> "close"])

\* ws.onclose
Close ==
    /\ ws \in {"connecting", "open"}
    /\ ws' = "closed"
    /\ sent' = sent
    /\ Commit(Client, [type |-> "close"])

\* ws.onerror
SocketError ==
    /\ ws \in {"connecting", "open"}
    /\ Commit(Client, [type |-> "socketerror"])
    /\ UNCHANGED <<ws, sent>>

\* for (const avatarName in message.avatars) this.avatars[avatarName] = new Avatar(...)
RECURSIVE RegisterAll(_, _)
RegisterAll(s, entries) ==
    IF entries = <<>> \/ s.threw THEN s
    ELSE RegisterAll(RegisterAvatar(s, Head(entries).key, Head(entries).def), Tail(entries))

\* if (message.f): the field is present and neither null nor false.
Truthy(m, f) == f \in DOMAIN m /\ m[f] # NullDef /\ m[f] # [false |-> TRUE]

\* Mutant: the snapshot is merged into the player mapping instead of replacing it.
HandleJoinGameMergingPlayers(s, m) ==
    IF Truthy(m, "success")
    THEN LET s1 == Collect([s EXCEPT !.playerId = m.playerId,
                                     !.players = m.players @@ @,
                                     !.avatars = <<>>])
         IN Then(Then(RegisterAll(s1, m.avatars), UpdateViewport), Render)
    ELSE s

\* Mutant: a join failure resets the session and renders.
HandleJoinGameResetOnFailure(s, m) ==
    IF Truthy(m, "success")
    THEN LET s1 == Collect([s EXCEPT !.playerId = m.playerId,
                                     !.players = Field(m, "players"),
                                     !.avatars = <<>>])
             list == IF "avatars" \in DOMAIN m THEN m.avatars ELSE <<>>
         IN Then(Then(RegisterAll(s1, list), UpdateViewport), Render)
    ELSE Render([s EXCEPT !.playerId = Null, !.players = <<>>])

\* case 'join_game'
HandleJoinGame(s, m) ==
    IF Truthy(m, "success")
    THEN LET s1 == Collect([s EXCEPT !.playerId = m.playerId,
                                     !.players = Field(m, "players"),
                                     !.avatars = <<>>])
             list == IF "avatars" \in DOMAIN m THEN m.avatars ELSE <<>>
         IN Then(Then(RegisterAll(s1, list), UpdateViewport), Render)
    ELSE s

\* Mutant: a client that has not joined takes the id of the first player announced.
HandlePlayerJoinedAdoptingId(s, m) ==
    IF Field(m, "player") = Undefined \/ s.players = Undefined THEN Throw(s)
    ELSE LET s1 == [s EXCEPT !.players = (m.player.id :> m.player) @@ @,
                             !.playerId = IF @ = Null THEN m.player.id ELSE @]
             s2 == IF Truthy(m, "avatar")
                   THEN RegisterAvatar(s1, m.avatar.name, m.avatar)
                   ELSE s1
         IN Then(s2, Render)

\* case 'player_joined'
HandlePlayerJoined(s, m) ==
    IF Field(m, "player") = Undefined \/ s.players = Undefined THEN Throw(s)
    ELSE LET s1 == [s EXCEPT !.players = (m.player.id :> m.player) @@ @]
             s2 == IF Truthy(m, "avatar")
                   THEN RegisterAvatar(s1, m.avatar.name, m.avatar)
                   ELSE s1
         IN Then(s2, Render)

\* Mutant: only the ids already in the target are overwritten.
ObjectAssignKnownOnly(target, source) ==
    IF source = Undefined THEN target
    ELSE [id \in DOMAIN target |-> IF id \in DOMAIN source THEN source[id] ELSE target[id]]

\* Object.assign(target, source)
ObjectAssign(target, source) == IF source = Undefined THEN target ELSE source @@ target

\* case 'players_moved'
HandlePlayersMoved(s, m) ==
    IF s.players = Undefined THEN Throw(s)
    ELSE Then(Then([s EXCEPT !.players = ObjectAssign(@, Field(m, "players"))],
                   UpdateViewport), Render)

\* Mutant: the key is not deleted.
DeleteNothing(object, key) == object

\* delete object[key]
Delete(object, key) == [k \in DOMAIN object \ {key} |-> object[k]]

\* case 'player_left'
HandlePlayerLeft(s, m) ==
    IF s.players = Undefined THEN Throw(s)
    ELSE Then([s EXCEPT !.players = IF "playerId" \in DOMAIN m THEN Delete(@, m.playerId) ELSE @],
              Render)

\* Mutant: an unrecognised action renders.
HandleMessageRenderingDefault(s, m) ==
    CASE m.action = "join_game" -> HandleJoinGame(s, m)
      [] m.action = "player_joined" -> HandlePlayerJoined(s, m)
      [] m.action = "players_moved" -> HandlePlayersMoved(s, m)
      [] m.action = "player_left" -> HandlePlayerLeft(s, m)
      [] OTHER -> Render(s)

\* GameClient.handleMessage
HandleMessage(s, m) ==
    CASE m.action = "join_game" -> HandleJoinGame(s, m)
      [] m.action = "player_joined" -> HandlePlayerJoined(s, m)
      [] m.action = "players_moved" -> HandlePlayersMoved(s, m)
      [] m.action = "player_left" -> HandlePlayerLeft(s, m)
      [] OTHER -> s

\* Handling m does not construct more Avatar objects than may be alive: a join
\* response first drops every registration, player_joined drops none.
HasRoom(m) ==
    IF m.action = "join_game" /\ "avatars" \in DOMAIN m
    THEN Len(m.avatars) <= MaxAvatarObjects - Cardinality({l[1] : l \in loading})
    ELSE IF m.action = "player_joined" /\ "avatar" \in DOMAIN m
    THEN 1 <= MaxAvatarObjects - Cardinality(DOMAIN objs)
    ELSE TRUE

\* ws.onmessage: try { handleMessage(JSON.parse(event.data)) } catch { console.error }
OnMessage(s, data) ==
    IF data.text = "json" THEN HandleMessage(s, data.value) ELSE Throw(s)

Message(data) ==
    /\ ws = "open"
    /\ data.text = "json" => HasRoom(data.value)
    /\ Commit(OnMessage(Client, data), [type |-> "message", data |-> data])
    /\ UNCHANGED <<ws, sent>>

(***************************************************************************)
(* The messages a server may send.                                         *)
(***************************************************************************)
Json(m) == [text |-> "json", value |-> m]

JoinSuccess(ids, snaps, lists) ==
    {[action |-> "join_game", success |-> [true |-> TRUE], playerId |-> id, players |-> snap,
      avatars |-> AvatarsOf(names)]
     : id \in ids, snap \in snaps, names \in lists}
JoinFailure == {[action |-> "join_game", success |-> [false |-> TRUE], error |-> "Server full"]}
PlayerJoined(recs) == {[action |-> "player_joined", player |-> p] : p \in recs}
PlayerJoinedWithAvatar(recs) ==
    {[action |-> "player_joined", player |-> p, avatar |-> AvatarDef(p.avatar)] : p \in recs}
PlayersMoved(maps) == {[action |-> "players_moved", players |-> f] : f \in maps \ {<<>>}}
PlayerLeft == {[action |-> "player_left", playerId |-> id] : id \in PlayerIds}
UnknownAction == {[action |-> "chat", text |-> "hello"]}

\* Messages that break the protocol: an expected field is missing or null.
JoinWithoutPlayers == [action |-> "join_game", success |-> [true |-> TRUE], playerId |-> "p1"]
JoinWithNullAvatar(snap) ==
    [action |-> "join_game", success |-> [true |-> TRUE], playerId |-> "p1", players |-> snap,
     avatars |-> <<[key |-> "a1", def |-> AvatarDef("a1")], [key |-> "a2", def |-> NullDef]>>]
PlayerJoinedWithoutPlayer == [action |-> "player_joined"]

\* Any event, the server's messages drawn from msgs and the window's sizes from sizes.
NextOf(msgs, sizes) ==
    \/ \E size \in sizes : Resize(size)
    \/ WorldImageLoad
    \/ WorldImageError
    \/ \E l \in loading : FrameLoad(l)
    \/ \E l \in loading : FrameError(l)
    \/ Open
    \/ Close
    \/ SocketError
    \/ \E m \in msgs : Message(Json(m))
    \/ Message([text |-> "garbage"])

(***************************************************************************)
(* Spec: state synchronisation and the viewport. Two players move between  *)
(* two places of the world and the window between two sizes (the second    *)
(* larger than the world); the server sends no avatar definitions.         *)
(***************************************************************************)
\* window.innerWidth x window.innerHeight; widths and heights are even, so
\* that canvas.width / 2 is the integer width \div 2.
CanvasSizes == {[width |-> 800, height |-> 600], [width |-> 2400, height |-> 2400]}
SyncPlayers ==
    {Player("p1", 100, 100, "east", 0, "a1"), Player("p1", 1900, 50, "west", 0, "a1"),
     Player("p2", 1900, 50, "east", 0, "a1")}
SyncMessages ==
    JoinSuccess({"p1"}, PlayerMaps(SyncPlayers), {<<>>, <<"a1">>}) \cup JoinFailure
    \cup PlayerJoined(SyncPlayers) \cup PlayersMoved(PlayerMaps(SyncPlayers))
    \cup PlayerLeft \cup UnknownAction \cup {JoinWithoutPlayers, PlayerJoinedWithoutPlayer}

Init == InitOf(CanvasSizes)
Next == NextOf(SyncMessages, CanvasSizes)
Spec == Init /\ [][Next]_vars

(***************************************************************************)
(* SpecAvatars: avatars and rendering. Each player stays where it is and   *)
(* the window keeps its size; the server sends avatar definitions with the *)
(* join response and with player_joined.                                   *)
(***************************************************************************)
AvatarCanvasSizes == {[width |-> 800, height |-> 600]}
AvatarPlayers ==
    {Player("p1", 100, 100, "east", 0, "a1"), Player("p2", 1900, 50, "south", 0, "a2")}
AvatarLists == {<<>>, <<"a1">>, <<"a2">>, <<"a1", "a2">>}
AvatarMessages ==
    JoinSuccess({"p1"}, PlayerMaps(AvatarPlayers), AvatarLists) \cup JoinFailure
    \cup PlayerJoined(AvatarPlayers) \cup PlayerJoinedWithAvatar(AvatarPlayers)
    \cup PlayerLeft \cup UnknownAction
    \cup {JoinWithNullAvatar(f) : f \in PlayerMaps(AvatarPlayers) \ {<<>>}}

InitAvatars == InitOf(AvatarCanvasSizes)
NextAvatars == NextOf(AvatarMessages, AvatarCanvasSizes)
SpecAvatars == InitAvatars /\ [][NextAvatars]_vars

(***************************************************************************)
(* SpecViewport: the viewport computation. The local player is placed at   *)
(* the corners, the edges and the middle of the world, under a window      *)
(* smaller than the world, as large as the world and larger than it.       *)
(***************************************************************************)
ViewportCanvasSizes ==
    {[width |-> 800, height |-> 600], [width |-> 2048, height |-> 2048],
     [width |-> 2400, height |-> 2400]}
ViewportPlayers ==
    {Player("p1", x, y, "east", 0, "a1") :
        x \in {0, 400, 1024, 1648, 1900, 2048}, y \in {50, 300, 1024, 1748, 2048}}
ViewportMessages ==
    JoinSuccess({"p1"}, PlayerMaps(ViewportPlayers), {<<>>})
    \cup PlayersMoved(PlayerMaps(ViewportPlayers))

InitViewport == InitOf(ViewportCanvasSizes)
NextViewport ==
    \/ \E size \in ViewportCanvasSizes : Resize(size)
    \/ WorldImageLoad
    \/ Open
    \/ \E m \in ViewportMessages : Message(Json(m))
SpecViewport == InitViewport /\ [][NextViewport]_vars

(***************************************************************************)
(* SpecRender: what a render pass draws. The local player stands near the  *)
(* far corner of the world, facing east or west, or with a facing or frame *)
(* index its avatar has no image for; the other player stands on and just  *)
(* beyond the culling margin, or in view with an avatar the server has not *)
(* defined.                                                                *)
(***************************************************************************)
RenderCanvasSizes == {[width |-> 800, height |-> 600]}
RenderPlayers ==
    {Player("p1", 1900, 1900, "east", 0, "a1"), Player("p1", 1900, 1900, "west", 0, "a1"),
     Player("p1", 1900, 1900, "north", 0, "a1"), Player("p1", 1900, 1900, "east", 1, "a1"),
     Player("p2", 1198, 1398, "east", 0, "a1"), Player("p2", 2098, 2098, "east", 0, "a1"),
     Player("p2", 1197, 1398, "east", 0, "a1"), Player("p2", 2098, 2099, "east", 0, "a1"),
     Player("p2", 1198, 1398, "west", 0, "a1"), Player("p2", 1500, 1500, "south", 0, "a2")}
RenderLists == {<<"a1">>}
RenderMessages ==
    JoinSuccess({"p1"}, {f \in PlayerMaps(RenderPlayers) : DOMAIN f = PlayerIds}, RenderLists)

InitRender == InitOf(RenderCanvasSizes)
NextRender == NextOf(RenderMessages, RenderCanvasSizes)
SpecRender == InitRender /\ [][NextRender]_vars

(***************************************************************************)
(* Properties                                                              *)
(***************************************************************************)
\* The last handled event was an inbound message that parsed, with this action.
Handled(s, action) ==
    /\ s.type = "message"
    /\ s.data.text = "json"
    /\ s.data.value.action = action

\* The local player is known and present in the player mapping.
LocalPlayerPresent ==
    /\ playerId # Null
    /\ players # Undefined
    /\ playerId \in DOMAIN players

\* C1: in every reachable state the viewport lies within the world:
\* 0 <= viewportX <= max(0, worldWidth - canvas.width), and the same for Y.
C1_ViewportWithinWorld ==
    /\ 0 <= viewportX /\ viewportX <= Max(0, worldWidth - canvas.width)
    /\ 0 <= viewportY /\ viewportY <= Max(0, worldHeight - canvas.height)

\* C2: after every handled event, when the local player is present the viewport
\* is the clamped viewport of that player's stored position and the canvas size.
C2_ViewportFollowsLocalPlayer ==
    LocalPlayerPresent =>
        /\ viewportX = Max(0, Min(worldWidth - canvas.width, players[playerId].x - canvas.width \div 2))
        /\ viewportY = Max(0, Min(worldHeight - canvas.height, players[playerId].y - canvas.height \div 2))

\* C3: a message whose handling raises an error leaves the local player id, the
\* player mapping and the avatar mapping exactly as they were.
C3_ErrorLeavesStateUnchanged ==
    [][(event'.type = "message" /\ threw') =>
          /\ playerId' = playerId
          /\ players' = players
          /\ avatars' = avatars
          /\ \A n \in DOMAIN avatars : objs'[avatars[n]] = objs[avatars[n]]]_vars

\* The message of the last handled event.
Msg(s) == s.data.value

\* A join response that carries a player snapshot and avatar definitions.
WellFormedJoin(m) ==
    /\ Truthy(m, "success")
    /\ "players" \in DOMAIN m
    /\ "avatars" \in DOMAIN m
    /\ \A k \in DOMAIN m.avatars : m.avatars[k].def # NullDef

\* C4: after a successful join response the local player id is the response's
\* playerId, the player mapping is exactly the response's snapshot, and the
\* avatar mapping holds exactly one newly constructed Avatar per definition.
C4_JoinReplacesSession ==
    (Handled(event, "join_game") /\ WellFormedJoin(Msg(event))) =>
        LET m == Msg(event)
            keys == {m.avatars[k].key : k \in DOMAIN m.avatars}
        IN /\ playerId = m.playerId
           /\ players = m.players
           /\ DOMAIN avatars = keys
           /\ \A k \in DOMAIN m.avatars :
                LET def == m.avatars[k].def
                    avatar == objs[avatars[m.avatars[k].key]]
                IN /\ avatar.name = def.name
                   /\ avatar.frames = def.frames
                   /\ \A d \in DOMAIN def.frames : avatar.loadedImages[d] = {}
           /\ \A k1, k2 \in keys : avatars[k1] = avatars[k2] => k1 = k2

\* C4 witness: a join response with one avatar definition and a one-player
\* snapshot has been processed by a client that had an avatar registered before
\* (a frame of that earlier Avatar is still loading).
C4_Witness ==
    /\ Handled(event, "join_game") /\ WellFormedJoin(Msg(event))
    /\ Len(Msg(event).avatars) = 1
    /\ DOMAIN players = {"p2"}
    /\ DOMAIN avatars = {"a2"}
    /\ \E l \in loading : l[1] # avatars["a2"]

\* C5: after players_moved the player mapping is the previous mapping overridden
\* by the payload: payload ids map to the payload's records, other ids keep their
\* records; the local player id and the avatar mapping are unchanged.
C5_PlayersMovedOverrides ==
    [][Handled(event', "players_moved") =>
          LET payload == Msg(event').players
          IN /\ players' # Undefined
             /\ \A id \in DOMAIN payload : id \in DOMAIN players' /\ players'[id] = payload[id]
             /\ players # Undefined =>
                  /\ DOMAIN players' = DOMAIN players \cup DOMAIN payload
                  /\ \A id \in DOMAIN players \ DOMAIN payload : players'[id] = players[id]
             /\ playerId' = playerId
             /\ avatars' = avatars]_vars

\* The same, for a client whose player mapping is an object when the message
\* arrives (it is undefined after a join response without players).
C5_OverridesExistingMapping ==
    [][(Handled(event', "players_moved") /\ players # Undefined) =>
          LET payload == Msg(event').players
          IN /\ DOMAIN players' = DOMAIN players \cup DOMAIN payload
             /\ \A id \in DOMAIN payload : players'[id] = payload[id]
             /\ \A id \in DOMAIN players \ DOMAIN payload : players'[id] = players[id]
             /\ playerId' = playerId
             /\ avatars' = avatars
             /\ \A n \in DOMAIN avatars : objs'[avatars[n]] = objs[avatars[n]]]_vars

\* C6: applying a players_moved payload a second time changes nothing: the local
\* player id, player mapping, avatar mapping and viewport are those of applying
\* it once.
C6_PlayersMovedIdempotent ==
    Handled(event, "players_moved") =>
        LET again == Collect(OnMessage(Client, event.data))
        IN /\ again.playerId = playerId
           /\ again.players = players
           /\ again.avatars = avatars
           /\ again.objs = objs
           /\ again.viewportX = viewportX
           /\ again.viewportY = viewportY

\* C6 witness: a payload moving the local player was applied and the viewport
\* followed it away from the origin.
C6_Witness ==
    /\ Handled(event, "players_moved")
    /\ LocalPlayerPresent
    /\ playerId \in DOMAIN Msg(event).players
    /\ viewportX > 0

\* The players the last render pass drew (avatar frame or label).
Drawn(s) == s.frames \cup s.labels

\* C7: after player_left for X, X is not in the player mapping, the other
\* records are unchanged, and no render pass draws a player that is not in the
\* mapping (so X is not drawn until a message puts it back).
C7_PlayerLeftRemoves ==
    [][/\ Handled(event', "player_left") =>
            LET X == Msg(event').playerId
            IN /\ players' = Undefined \/ X \notin DOMAIN players'
               /\ players # Undefined =>
                    /\ DOMAIN players' = DOMAIN players \ {X}
                    /\ \A id \in DOMAIN players' : players'[id] = players[id]
                    /\ X \notin Drawn(surface')
               /\ renderCalls' > 0 => X \notin Drawn(surface')
       /\ (renderCalls' > 0 /\ players' # Undefined) => Drawn(surface') \subseteq DOMAIN players'
       /\ (renderCalls' > 0 /\ players' = Undefined) => Drawn(surface') = {}]_vars

\* C7 witness: p2 has left, and the render pass of that message drew p1 only.
C7_Witness ==
    /\ Handled(event, "player_left")
    /\ Msg(event).playerId = "p2"
    /\ players # Undefined
    /\ DOMAIN players = {"p1"}
    /\ surface.labels = {"p1"}

\* C8: a player_joined message with an avatar definition whose name is already
\* registered leaves the registered Avatar object and its loaded frames alone.
C8_AvatarCreatedOnce ==
    [][(Handled(event', "player_joined") /\ ~threw' /\ "avatar" \in DOMAIN Msg(event')) =>
          LET name == Msg(event').avatar.name
          IN name \in DOMAIN avatars =>
               /\ avatars'[name] = avatars[name]
               /\ objs'[avatars[name]] = objs[avatars[name]]]_vars

\* What a message that is to be ignored must leave alone.
Ignored ==
    /\ UNCHANGED <<playerId, players, avatars, objs, loading, viewportX, viewportY, surface, sent>>
    /\ renderCalls' = 0
    /\ ~threw'

\* C9: a join response with success=false changes nothing, renders nothing and
\* sends nothing.
C9_JoinFailureChangesNothing ==
    [][(Handled(event', "join_game") /\ ~Truthy(Msg(event'), "success")) => Ignored]_vars

\* C9 witness: an unjoined client has processed a join failure and is unjoined.
C9_Witness ==
    /\ Handled(event, "join_game")
    /\ ~Truthy(Msg(event), "success")
    /\ playerId = Null
    /\ Len(sent) = 1

\* C10: a message with an unrecognised action is a no-op: no error, no change
\* of the session state or the viewport, no render.
C10_UnknownActionIgnored ==
    [][(/\ event'.type = "message"
        /\ event'.data.text = "json"
        /\ Msg(event').action \notin {"join_game", "player_joined", "players_moved", "player_left"})
       => Ignored]_vars

\* C10 witness: a joined client with players has processed an unknown action.
C10_Witness ==
    /\ Handled(event, "chat")
    /\ LocalPlayerPresent
    /\ surface.labels # {}

\* C11: a render performs no surface operation and raises no error unless the
\* world image has finished loading successfully: a handler that calls render
\* while the image is still loading, or after its load failed, leaves the canvas
\* as it was (blank after a resize, which clears it by itself) and throws nothing.
C11_NoRenderUntilWorldLoaded ==
    [][(renderCalls' > 0 /\ worldImage' # "loaded") =>
          /\ ~threw'
          /\ \/ surface' = surface
             \/ event'.type = "resize" /\ surface' = Blank]_vars

\* The last step handled a message that changes state and carries the fields its
\* handler reads: a join success, a player_joined, a players_moved or a player_left.
StateChanging(s) ==
    \/ Handled(s, "join_game") /\ WellFormedJoin(Msg(s))
    \/ Handled(s, "player_joined") /\ "player" \in DOMAIN Msg(s)
    \/ Handled(s, "players_moved")
    \/ Handled(s, "player_left")

\* The players a full render of the current state shows: those of the mapping
\* whose avatar is registered and whose canvas position is within the margin.
Shown ==
    {id \in DOMAIN players :
        /\ players[id].avatar \in DOMAIN avatars
        /\ -50 <= players[id].x - viewportX /\ players[id].x - viewportX <= canvas.width + 50
        /\ -50 <= players[id].y - viewportY /\ players[id].y - viewportY <= canvas.height + 50}

\* C13: handling a state-changing message invokes exactly one full render after
\* the mutation, so the canvas shows the state that message produced.
C13_OneRenderPerStateChange ==
    [][StateChanging(event') =>
          /\ renderCalls' = 1
          /\ ~threw'
          /\ players' # Undefined
          /\ surface'.labels = Shown']_vars

\* C13 holds where the player mapping exists and the world image did not fail to load.
C13_OneRenderOnSoundState ==
    [][(StateChanging(event') /\ players # Undefined /\ worldImage' # "broken") =>
          /\ renderCalls' = 1
          /\ ~threw'
          /\ surface'.labels = Shown']_vars

\* C14: exactly one join request is sent if the connection opens and none
\* otherwise: the request goes out in the open handler, on a socket that has sent
\* nothing yet, and no other event (a join failure, a socket error, a close, any
\* message) sends anything.
C14_OneJoinRequestOnOpen ==
    [][/\ event'.type = "open" =>
            /\ ws = "connecting" /\ sent = <<>>
            /\ Len(sent') = 1 /\ sent'[1].action = "join_game"
       /\ event'.type # "open" => sent' = sent
       /\ ws' = "connecting" => sent' = <<>>]_vars

\* C14 witness: the socket opened, sent its one join request, and has closed
\* without the client having joined.
C14_Witness ==
    /\ event.type = "close"
    /\ ws = "closed"
    /\ Len(sent) = 1
    /\ playerId = Null

\* C19: while no join has succeeded (playerId is null) the viewport stays at
\* (0, 0) whatever is handled, and playerId leaves null only in the handling of a
\* join response whose success is truthy.
C19_ViewportAtOriginUntilJoined ==
    [][/\ playerId = Null => viewportX = 0 /\ viewportY = 0
       /\ playerId' = Null => viewportX' = 0 /\ viewportY' = 0
       /\ (playerId = Null /\ playerId' # Null) =>
             /\ Handled(event', "join_game")
             /\ Truthy(Msg(event'), "success")
             /\ playerId' = Msg(event').playerId]_vars

\* C19 witness: a client that has not joined holds a player far from the origin,
\* delivered by players_moved, on the small canvas.
C19_Witness ==
    /\ playerId = Null
    /\ Handled(event, "players_moved")
    /\ ~threw
    /\ "p1" \in DOMAIN players
    /\ players["p1"].x = 1900
    /\ canvas.width = 800

\* clamp(v, lo, hi)
StdClamp(v, lo, hi) == IF v < lo THEN lo ELSE IF v > hi THEN hi ELSE v

\* The last event ran updateViewport to its end: a resize, a join success or a
\* players_moved that did not throw.
ViewportUpdated(s) ==
    \/ s.type = "resize"
    \/ Handled(s, "join_game") /\ Truthy(Msg(s), "success")
    \/ Handled(s, "players_moved")

\* C15: for every position of the local player and every canvas size,
\* updateViewport leaves viewportX = clamp(x - width/2, 0, max(0, worldWidth - width))
\* and viewportY = clamp(y - height/2, 0, max(0, worldHeight - height)), also
\* when the canvas is larger than the world.
C15_ViewportIsClampedCentre ==
    (ViewportUpdated(event) /\ ~threw /\ LocalPlayerPresent) =>
        /\ viewportX = StdClamp(players[playerId].x - canvas.width \div 2,
                                0, Max(0, worldWidth - canvas.width))
        /\ viewportY = StdClamp(players[playerId].y - canvas.height \div 2,
                                0, Max(0, worldHeight - canvas.height))

\* C15 witness: the 2048x2048 world, an 800x600 canvas and the local player at
\* (1900, 50) give the viewport (1248, 0).
C15_Witness ==
    /\ ViewportUpdated(event) /\ ~threw /\ LocalPlayerPresent
    /\ canvas = [width |-> 800, height |-> 600]
    /\ players[playerId].x = 1900 /\ players[playerId].y = 50
    /\ viewportX = 1248 /\ viewportY = 0

\* C15, canvas larger than the world: the viewport is (0, 0) with the local
\* player in the far corner.
C15_LargerThanWorld ==
    /\ event.type = "resize" /\ LocalPlayerPresent
    /\ canvas.width > worldWidth /\ canvas.height > worldHeight
    /\ players[playerId].x = 2048 /\ players[playerId].y = 2048
    /\ viewportX = 0 /\ viewportY = 0

\* The registered avatar of player id holds no loaded image for the player's
\* resolved facing (west resolves to east) and frame index.
FrameMissing(id) ==
    LET p == players[id]
        avatar == objs[avatars[p.avatar]]
        direction == IF p.facing = "west" THEN "east" ELSE p.facing
    IN \/ direction \notin DOMAIN avatar.loadedImages
       \/ p.animationFrame \notin avatar.loadedImages[direction]

\* A handler rendered without the world image having failed, over an existing
\* player mapping.
Rendered == renderCalls > 0 /\ worldImage # "broken" /\ players # Undefined

\* C12 as stated: drawing a player whose avatar has no loaded frame for its
\* resolved facing and frame index puts nothing on the canvas and raises no error.
C12_MissingFrameDrawsNothing ==
    [][Rendered' =>
          /\ ~threw'
          /\ \A id \in Shown' : FrameMissing(id)' => id \notin Drawn(surface')]_vars

\* C12 amended: for such a player Avatar.draw draws nothing and raises no error,
\* and drawPlayer still draws the player's name label.
C12_MissingFrameDrawsLabelOnly ==
    [][Rendered' =>
          /\ ~threw'
          /\ \A id \in Shown' :
                FrameMissing(id)' => id \notin surface'.frames /\ id \in surface'.labels]_vars

\* C12 witness: a render has passed over a player whose frame index is out of
\* range of the loaded frames of its avatar; only its label is drawn.
C12_Witness ==
    /\ Rendered /\ ~threw
    /\ \E id \in Shown :
          /\ players[id].animationFrame = 1
          /\ objs[avatars[players[id].avatar]].loadedImages["east"] = {0}
          /\ id \in surface.labels /\ id \notin surface.frames

\* C12, a facing the avatar has no images for: only the label is drawn.
C12_FacingWithoutImages ==
    /\ Rendered /\ ~threw
    /\ \E id \in Shown :
          /\ players[id].facing = "north"
          /\ id \in surface.labels /\ id \notin surface.frames

\* C12, a frame whose load failed: only the label is drawn.
C12_FrameFailed ==
    /\ Rendered /\ ~threw
    /\ \E id \in Shown :
          /\ players[id].facing = "east" /\ players[id].animationFrame = 0
          /\ objs[avatars[players[id].avatar]].loadedImages["east"] = {}
          /\ \A l \in loading : l[1] # avatars[players[id].avatar]
          /\ id \in surface.labels /\ id \notin surface.frames

\* C16: a mirrored (west) draw at canvas point (x, y) covers the rectangle
\* [x-16, x+16] x [y-16, y+16], the one an east draw at that point covers, with
\* the image flipped left to right, and leaves the context's transform as it was.
C16_MirroredDrawCoversSameRectangle ==
    [][Rendered' =>
          /\ surface'.transform = 1
          /\ \A id \in surface'.frames :
                LET x == players'[id].x - viewportX'
                    y == players'[id].y - viewportY'
                    rect == surface'.rects[id]
                IN /\ rect.left = x - 16 /\ rect.right = x + 16
                   /\ rect.top = y - 16 /\ rect.bottom = y + 16
                   /\ rect.flipped = (players'[id].facing = "west")]_vars

\* C16 witness: a render drew a west-facing player at a canvas point left of
\* and above the canvas, and an east-facing one.
C16_Witness ==
    /\ Rendered /\ ~threw
    /\ \E id \in surface.frames :
          /\ players[id].facing = "west"
          /\ players[id].x - viewportX = -50 /\ players[id].y - viewportY = -50
          /\ surface.rects[id].left = -66 /\ surface.rects[id].right = -34
    /\ \E id \in surface.frames : players[id].facing = "east"

\* C17: a render with the world image loaded draws a player of the mapping (its
\* avatar if the frame is loaded, and its label) exactly when its canvas position
\* is within [-50, width+50] x [-50, height+50] and its avatar is registered; a
\* player whose avatar is not registered gets no label, and a render alone
\* changes neither the players, the avatars, the local player id nor the viewport.
C17_DrawnIffInMarginAndRegistered ==
    [][/\ (Rendered' /\ worldImage' = "loaded") =>
            /\ surface'.background
            /\ surface'.labels = Shown'
            /\ surface'.frames = {id \in Shown' : ~FrameMissing(id)'}
       /\ (worldImage = "loading" /\ worldImage' = "loaded") =>
            /\ renderCalls' = 1
            /\ UNCHANGED <<playerId, players, avatars, objs, viewportX, viewportY>>
       /\ event'.type = "resize" => UNCHANGED <<playerId, players, avatars, objs>>]_vars

\* C17 witness: with the world image loaded, a render has drawn the local player
\* and a player exactly on the right and bottom margin.
C17_Witness ==
    /\ Rendered /\ worldImage = "loaded" /\ Handled(event, "join_game")
    /\ "p1" \in surface.labels /\ "p2" \in DOMAIN players
    /\ players["p2"].x - viewportX = canvas.width + 50
    /\ players["p2"].y - viewportY = canvas.height + 50
    /\ "p2" \in surface.labels

\* C17, beyond the margin: the player a pixel below the margin is not drawn.
C17_CulledBeyondMargin ==
    /\ Rendered /\ worldImage = "loaded" /\ "p2" \in DOMAIN players
    /\ players["p2"].y - viewportY = canvas.height + 51
    /\ players["p2"].avatar \in DOMAIN avatars
    /\ "p2" \notin Drawn(surface)

\* C17, avatar not registered: the player in view is skipped, label included.
C17_UnregisteredSkipped ==
    /\ Rendered /\ worldImage = "loaded" /\ "p2" \in DOMAIN players
    /\ players["p2"].x - viewportX = 252
    /\ players["p2"].avatar \notin DOMAIN avatars
    /\ "p2" \notin Drawn(surface)

\* The last event was the completion of a frame image's load.
FrameLoadEvent(s) == s.type = "load" /\ s.target = "frame"

\* C18: a frame load that completes fills a slot of the Avatar that started it
\* and of no other: every registered Avatar that is not the one that started the
\* load is left as it was, also when it is registered under the same name, and
\* the loaded frames of a registered Avatar change only when one of its own
\* loads completes (or the Avatar is a newly constructed one, with none).
C18_LoadFillsOwnAvatarOnly ==
    [][/\ FrameLoadEvent(event') =>
            LET l == event'.frame
            IN /\ avatars' = avatars
               /\ \A n \in DOMAIN avatars :
                     IF avatars[n] = l[1]
                     THEN objs'[l[1]].loadedImages =
                             [objs[l[1]].loadedImages EXCEPT ![l[2]] = @ \cup {l[3]}]
                     ELSE objs'[avatars[n]] = objs[avatars[n]]
       /\ \A n \in DOMAIN avatars \cap DOMAIN avatars' :
             (/\ avatars'[n] = avatars[n]
              /\ objs'[avatars[n]].loadedImages # objs[avatars[n]].loadedImages) =>
                \/ FrameLoadEvent(event') /\ event'.frame[1] = avatars[n]
                \/ /\ event'.type = "message"
                   /\ \A d \in DOMAIN objs'[avatars[n]].loadedImages :
                         objs'[avatars[n]].loadedImages[d] = {}]_vars

\* C18 witness: a load started by an Avatar that has since been replaced has
\* completed, and the Avatar now registered under that name has no frame loaded.
C18_Witness ==
    /\ FrameLoadEvent(event)
    /\ event.frame[2] = "east"
    /\ \A n \in DOMAIN avatars : avatars[n] # event.frame[1]
    /\ "a1" \in DOMAIN avatars
    /\ objs[avatars["a1"]].loadedImages["east"] = {}
====
